---- MODULE Spec2Model ----
(***************************************************************************)
(* Model of examples/quantum_annealing/Running_large_problems_using_QBSolv *)
(* (a Jupyter notebook).  The notebook is a linear script: cell 3 builds a *)
(* random graph and folds its edges into the QUBO dictionary, cell 4 sets  *)
(* solver_limit and selects the device, cell 5 finds an embedding of a     *)
(* complete graph, wraps the device, calls QBSolv().sample_qubo and prints. *)
(*                                                                         *)
(* Every notebook variable is a function over kernel sessions (Runs), so   *)
(* that two executions of the same cells can be compared.  A Python global *)
(* is either unbound or bound to one value: it is modelled as a set with   *)
(* at most one element.                                                    *)
(***************************************************************************)
EXTENDS Integers, Sequences, FiniteSets, TLC

VARIABLES
    nodes,        \* cell 3: nodes (the literal of line 83, scaled down)
    seed,         \* cell 3: seed  (the literal of line 86)
    edges,        \* cell 3: edges = round(nodes*(nodes-1)/2*0.4)
    Graph,        \* cell 3: Graph = nx.gnm_random_graph(...)
    QUBO,         \* cell 3: QUBO = defaultdict(int), then the loop
    pos,          \* cell 3: position of the iterator of "for u, v in Graph.edges"
    solver_limit, \* cell 4
    system,       \* cell 4: BraketDWaveSampler
    G,            \* cell 5: nx.complete_graph(solver_limit)
    embedding,    \* cell 5: minorminer.find_embedding(...)
    solver,       \* cell 5: FixedEmbeddingComposite(system, embedding)
    num_repeats,  \* cell 5
    num_reads,    \* cell 5
    call,         \* cell 5: the arguments QBSolv().sample_qubo was invoked with
    response,     \* cell 5: the value sample_qubo returned
    stdout,       \* cell 5: what print wrote
    pc,           \* the statement each session executes next
    error,        \* the step whose exception ended the session, if any
    log,          \* the steps each session has begun, in order
    drawn         \* the graphs the pseudo-random generator gave, per RNG state

vars == <<nodes, seed, edges, Graph, QUBO, pos, solver_limit, system, G,
          embedding, solver, num_repeats, num_reads, call, response, stdout,
          pc, error, log, drawn>>

-----------------------------------------------------------------------------
(* Bounds of the model *)

\* the node counts explored when one session runs the whole notebook
MaxNodes == 4
\* the node counts explored when two sessions run cell 3 side by side
MaxNodesRepro == 3
\* the seeds explored: 1 .. MaxSeed
MaxSeed == 2

(* Literals of the notebook *)

NotebookNodes == 240
SolverLimitLiteral == 40
NumRepeatsLiteral == 2
NumReadsLiteral == 100

Runs == {1, 2}

-----------------------------------------------------------------------------
(* Python globals: unbound, or bound to one value *)

Unbound == {}
Bound(v) == {v}
IsBound(b) == b # {}
Val(b) == CHOOSE v \in b : TRUE

-----------------------------------------------------------------------------
(* Cell 3, line 85: edges = round(nodes * (nodes-1)/2 * 0.4) *)

\* Python 3 round(): to the nearest integer, ties to the even one
\* (num/den is a non-negative rational)
round(num, den) ==
    LET q == num \div den
        r == num % den
    IN  IF 2 * r < den THEN q
        ELSE IF 2 * r > den THEN q + 1
        ELSE IF q % 2 = 0 THEN q ELSE q + 1

\* nodes*(nodes-1)/2*0.4 = nodes*(nodes-1)*4/20.  nodes*(nodes-1) mod 5 is
\* 0, 1 or 2, so the product is never within 0.1 of a tie and the float
\* arithmetic of the notebook rounds as the rational does.
EdgeCountNoHalving(n) == round(n * (n - 1) * 4, 10)
EdgeCount(n) == round(n * (n - 1) * 4, 20)

-----------------------------------------------------------------------------
(* Cell 3, line 89: Graph = nx.gnm_random_graph(nodes, edges, seed) *)

\* the possible edges of a simple undirected graph on 0 .. n-1
max_edges(n) == (n * (n - 1)) \div 2
AllPairs(n) == {p \in (0 .. n - 1) \X (0 .. n - 1) : p[1] < p[2]}

RECURSIVE Perms(_)
Perms(S) ==
    IF S = {} THEN {<<>>}
    ELSE UNION {{<<x>> \o p : p \in Perms(S \ {x})} : x \in S}

\* Graph.edges of an undirected graph whose nodes were added as 0 .. n-1:
\* the nodes are visited in that order and (u, v) is reported from the
\* first visited endpoint, so u < v, the edges come grouped by ascending u,
\* and within a group in the order the edges were inserted (any order).
RECURSIVE EdgeViews(_, _, _)
EdgeViews(S, u, n) ==
    IF u >= n THEN {<<>>}
    ELSE LET nbrs == {p \in S : p[1] = u}
         IN  {h \o t : h \in Perms(nbrs), t \in EdgeViews(S, u + 1, n)}

\* the complete graph on 0 .. n-1, edges in itertools.combinations order:
\* (0,1) .. (0,n-1), (1,2) .. (1,n-1), ...
RECURSIVE CombinationsFrom(_, _)
CombinationsFrom(u, n) ==
    IF u >= n - 1 THEN <<>>
    ELSE [j \in 1 .. (n - 1 - u) |-> <<u, u + j>>] \o CombinationsFrom(u + 1, n)

complete_graph_from1(n) ==
    [nodes |-> 1 .. n, edges |-> CombinationsFrom(1, n + 1)]
complete_graph(n) ==
    [nodes |-> 0 .. n - 1, edges |-> CombinationsFrom(0, n)]

\* every graph gnm_random_graph(n, m, .) can return: n nodes and, unless
\* m reaches max_edges (then the complete graph), exactly m distinct edges,
\* none a self-loop
GnmGraphs(n, m) ==
    IF n = 1 THEN {[nodes |-> 0 .. n - 1, edges |-> <<>>]}
    ELSE IF m >= max_edges(n) THEN {complete_graph(n)}
    ELSE {[nodes |-> 0 .. n - 1, edges |-> e] :
            e \in UNION {EdgeViews(S, 0, n) :
                           S \in {T \in SUBSET AllPairs(n) : Cardinality(T) = m}}}

\* the state the generator's RNG starts from.  A seed is given, so it is
\* random.Random(seed); without one it would be the session's global RNG.
RandomStateUnseeded(s, r) == <<"global", r>>
RandomState(s, r) == <<"seeded", s>>

\* the generator is deterministic in (n, m, RNG state): the first call with a
\* key draws any graph, every later call with that key returns the same one
GnmKey(n, m, s, r) == <<n, m, RandomState(s, r)>>

-----------------------------------------------------------------------------
(* Cell 3, lines 92-98: the QUBO defaultdict and the accumulation loop *)

\* defaultdict(int)()
EmptyTable == [k \in {} |-> 0]

\* QUBO[k] += d on a defaultdict(int): a missing key is first inserted as 0
AddReplacing(Q, k, d) ==
    IF k \in DOMAIN Q THEN [Q EXCEPT ![k] = d] ELSE (k :> d) @@ Q
Add(Q, k, d) ==
    IF k \in DOMAIN Q THEN [Q EXCEPT ![k] = @ + d] ELSE (k :> 0 + d) @@ Q

\* the loop body for one edge (u, v)
LoopBodySymmetric(Q, u, v) ==
    LET lo == IF u < v THEN u ELSE v
        hi == IF u < v THEN v ELSE u
    IN  Add(Add(Add(Add(Q, <<u, u>>, -1), <<v, v>>, -3), <<lo, hi>>, 2),
            <<hi, lo>>, 2)
LoopBodySwapped(Q, u, v) ==
    Add(Add(Add(Q, <<u, u>>, -3), <<v, v>>, -1), <<u, v>>, 2)
LoopBodySkipFirst(Q, u, v) ==
    IF u = 0 THEN Add(Add(Q, <<v, v>>, -3), <<u, v>>, 2)
    ELSE Add(Add(Add(Q, <<u, u>>, -1), <<v, v>>, -3), <<u, v>>, 2)
LoopBody(Q, u, v) ==
    Add(Add(Add(Q, <<u, u>>, -1), <<v, v>>, -3), <<u, v>>, 2)

-----------------------------------------------------------------------------
(* Cells 2, 4 and 5: the external objects, kept opaque *)

\* cell 2, lines 60-62
s3_folder == <<"amazon-braket-Your-Bucket-Name", "Your-Folder-Name">>

\* cell 4, line 120
BraketDWaveSampler(folder, arn) == [s3 |-> folder, device |-> arn]

\* the nodes an edge collection mentions
Endpoints(es) == {es[i][1] : i \in DOMAIN es} \cup {es[i][2] : i \in DOMAIN es}

\* cell 5, line 149: minorminer.find_embedding(S, T).  An embedding maps each
\* node of the source edges S to a chain of target qubits (opaque here).
\* When the heuristic finds none it does not raise: it returns an empty dict.
EmptyEmbedding == [v \in {} |-> <<>>]
find_embedding(S, found) ==
    IF found THEN [v \in Endpoints(S) |-> <<"chain", v>>] ELSE EmptyEmbedding

\* cell 5, line 152
FixedEmbeddingComposite(child, emb) == [child |-> child, embedding |-> emb]

\* cell 5, line 160: the keyword arguments of QBSolv().sample_qubo
sample_qubo_args_swapped(Q, slv, repeats, limit, reads) ==
    [Q |-> Q, solver |-> slv, num_repeats |-> reads, solver_limit |-> limit,
     num_reads |-> repeats]
sample_qubo_args(Q, slv, repeats, limit, reads) ==
    [Q |-> Q, solver |-> slv, num_repeats |-> repeats, solver_limit |-> limit,
     num_reads |-> reads]

\* the variables of a QUBO dictionary: every label that occurs in a key
Variables(Q) == {k[1] : k \in DOMAIN Q} \cup {k[2] : k \in DOMAIN Q}

\* the sample set QBSolv returns, opaque but for its variables
SampleSet(Q) == [vartype |-> "BINARY", variables |-> Variables(Q)]

\* cell 5, line 161: print(response) ends with the summary line
\* ['BINARY', ..., <n> variables]
Format(resp) == <<resp.vartype, Cardinality(resp.variables), "variables">>

-----------------------------------------------------------------------------
(* The order of the statements *)

AfterLoopLast(step) ==
    CASE step = "graph" -> "device"
      [] step = "device" -> "embedding"
      [] step = "embedding" -> "solver"
      [] step = "solver" -> "loop"
      [] step = "loop" -> "print"
      [] step = "print" -> "done"
After(step) ==
    CASE step = "graph" -> "loop"
      [] step = "loop" -> "device"
      [] step = "device" -> "embedding"
      [] step = "embedding" -> "solver"
      [] step = "solver" -> "print"
      [] step = "print" -> "done"

\* the steps of the script, in the order of the cells
Steps == <<"graph", "accumulate", "device", "embedding", "solver", "print">>

Begin(l, step) == Append(l, step)
BeginOnce(l, step) ==
    IF \E i \in DOMAIN l : l[i] = step THEN l ELSE Append(l, step)

\* an unhandled exception ends the run: nothing catches it, nothing retries
RaiseRetry(step) == step
Raise(step) == "error"

-----------------------------------------------------------------------------
(* Initial states *)

InitWith(active, maxn) ==
    /\ nodes \in [Runs -> 1 .. maxn]
    /\ seed \in [Runs -> 1 .. MaxSeed]
    /\ \A r \in Runs \ active : nodes[r] = 1 /\ seed[r] = 1
    /\ pc = [r \in Runs |-> IF r \in active THEN "graph" ELSE "off"]
    /\ edges = [r \in Runs |-> Unbound]
    /\ Graph = [r \in Runs |-> Unbound]
    /\ QUBO = [r \in Runs |-> Unbound]
    /\ pos = [r \in Runs |-> 0]
    /\ solver_limit = [r \in Runs |-> Unbound]
    /\ system = [r \in Runs |-> Unbound]
    /\ G = [r \in Runs |-> Unbound]
    /\ embedding = [r \in Runs |-> Unbound]
    /\ solver = [r \in Runs |-> Unbound]
    /\ num_repeats = [r \in Runs |-> Unbound]
    /\ num_reads = [r \in Runs |-> Unbound]
    /\ call = [r \in Runs |-> Unbound]
    /\ response = [r \in Runs |-> Unbound]
    /\ stdout = [r \in Runs |-> <<>>]
    /\ error = [r \in Runs |-> Unbound]
    /\ log = [r \in Runs |-> <<>>]
    /\ drawn = [k \in {} |-> 0]

\* one session runs the notebook from cell 3 to the end
Init == InitWith({1}, MaxNodes)
\* two sessions run cell 3
InitRepro == InitWith(Runs, MaxNodesRepro)

-----------------------------------------------------------------------------
(* Cell 3 *)

Cell3Graph(r) ==
    /\ pc[r] = "graph"
    /\ LET m == EdgeCount(nodes[r])
           k == GnmKey(nodes[r], m, seed[r], r)
       IN  /\ edges' = [edges EXCEPT ![r] = Bound(m)]
           /\ \E g \in (IF k \in DOMAIN drawn THEN {drawn[k]}
                        ELSE GnmGraphs(nodes[r], m)) :
                 /\ Graph' = [Graph EXCEPT ![r] = Bound(g)]
                 /\ drawn' = (k :> g) @@ drawn
    /\ QUBO' = [QUBO EXCEPT ![r] = Bound(EmptyTable)]
    /\ pos' = [pos EXCEPT ![r] = 0]
    /\ log' = [log EXCEPT ![r] = Begin(@, "graph")]
    /\ pc' = [pc EXCEPT ![r] = After("graph")]
    /\ UNCHANGED <<nodes, seed, solver_limit, system, G, embedding, solver,
                   num_repeats, num_reads, call, response, stdout, error>>

LoopIteration(r) ==
    /\ pc[r] = "loop"
    /\ pos[r] < Len(Val(Graph[r]).edges)
    /\ LET e == Val(Graph[r]).edges[pos[r] + 1]
       IN  QUBO' = [QUBO EXCEPT ![r] = Bound(LoopBody(Val(@), e[1], e[2]))]
    /\ pos' = [pos EXCEPT ![r] = @ + 1]
    /\ log' = [log EXCEPT ![r] = BeginOnce(@, "accumulate")]
    /\ UNCHANGED <<nodes, seed, edges, Graph, solver_limit, system, G,
                   embedding, solver, num_repeats, num_reads, call, response,
                   stdout, pc, error, drawn>>

LoopExit(r) ==
    /\ pc[r] = "loop"
    /\ pos[r] >= Len(Val(Graph[r]).edges)
    /\ log' = [log EXCEPT ![r] = BeginOnce(@, "accumulate")]
    /\ pc' = [pc EXCEPT ![r] = After("loop")]
    /\ UNCHANGED <<nodes, seed, edges, Graph, QUBO, pos, solver_limit, system,
                   G, embedding, solver, num_repeats, num_reads, call,
                   response, stdout, error, drawn>>

-----------------------------------------------------------------------------
(* Cell 4 *)

Cell4Device(r) ==
    /\ pc[r] = "device"
    /\ solver_limit' = [solver_limit EXCEPT ![r] = Bound(SolverLimitLiteral)]
    /\ log' = [log EXCEPT ![r] = Begin(@, "device")]
    /\ \E raised \in BOOLEAN :
          IF raised
          THEN /\ pc' = [pc EXCEPT ![r] = Raise("device")]
               /\ error' = [error EXCEPT ![r] = Bound("device")]
               /\ UNCHANGED system
          ELSE /\ system' = [system EXCEPT ![r] = Bound(BraketDWaveSampler(
                     s3_folder,
                     "arn:aws:braket:::device/qpu/d-wave/Advantage_system1"))]
               /\ pc' = [pc EXCEPT ![r] = After("device")]
               /\ UNCHANGED error
    /\ UNCHANGED <<nodes, seed, edges, Graph, QUBO, pos, G, embedding, solver,
                   num_repeats, num_reads, call, response, stdout, drawn>>

-----------------------------------------------------------------------------
(* Cell 5 *)

Cell5Embedding(r) ==
    /\ pc[r] = "embedding"
    /\ G' = [G EXCEPT ![r] = Bound(complete_graph(Val(solver_limit[r])))]
    /\ log' = [log EXCEPT ![r] = Begin(@, "embedding")]
    /\ \E outcome \in {"found", "empty", "raise"} :
          IF outcome = "raise"
          THEN /\ pc' = [pc EXCEPT ![r] = Raise("embedding")]
               /\ error' = [error EXCEPT ![r] = Bound("embedding")]
               /\ UNCHANGED embedding
          ELSE /\ embedding' = [embedding EXCEPT ![r] =
                     Bound(find_embedding(Val(G'[r]).edges, outcome = "found"))]
               /\ pc' = [pc EXCEPT ![r] = After("embedding")]
               /\ UNCHANGED error
    /\ UNCHANGED <<nodes, seed, edges, Graph, QUBO, pos, solver_limit, system,
                   solver, num_repeats, num_reads, call, response, stdout,
                   drawn>>

Cell5Solver(r) ==
    /\ pc[r] = "solver"
    /\ solver' = [solver EXCEPT ![r] =
          Bound(FixedEmbeddingComposite(Val(system[r]), Val(embedding[r])))]
    /\ num_repeats' = [num_repeats EXCEPT ![r] = Bound(NumRepeatsLiteral)]
    /\ num_reads' = [num_reads EXCEPT ![r] = Bound(NumReadsLiteral)]
    /\ call' = [call EXCEPT ![r] = Bound(sample_qubo_args(
          Val(QUBO[r]), Val(solver'[r]), Val(num_repeats'[r]),
          Val(solver_limit[r]), Val(num_reads'[r])))]
    /\ log' = [log EXCEPT ![r] = Begin(@, "solver")]
    /\ \E raised \in BOOLEAN :
          IF raised
          THEN /\ pc' = [pc EXCEPT ![r] = Raise("solver")]
               /\ error' = [error EXCEPT ![r] = Bound("solver")]
               /\ UNCHANGED response
          ELSE /\ response' = [response EXCEPT ![r] =
                     Bound(SampleSet(Val(call'[r]).Q))]
               /\ pc' = [pc EXCEPT ![r] = After("solver")]
               /\ UNCHANGED error
    /\ UNCHANGED <<nodes, seed, edges, Graph, QUBO, pos, solver_limit, system,
                   G, embedding, stdout, drawn>>

Cell5Print(r) ==
    /\ pc[r] = "print"
    /\ stdout' = [stdout EXCEPT ![r] = Append(@, Format(Val(response[r])))]
    /\ log' = [log EXCEPT ![r] = Begin(@, "print")]
    /\ pc' = [pc EXCEPT ![r] = After("print")]
    /\ UNCHANGED <<nodes, seed, edges, Graph, QUBO, pos, solver_limit, system,
                   G, embedding, solver, num_repeats, num_reads, call,
                   response, error, drawn>>

-----------------------------------------------------------------------------
(* Specifications *)

Next ==
    \E r \in Runs :
        \/ Cell3Graph(r)
        \/ LoopIteration(r)
        \/ LoopExit(r)
        \/ Cell4Device(r)
        \/ Cell5Embedding(r)
        \/ Cell5Solver(r)
        \/ Cell5Print(r)

Spec == Init /\ [][Next]_vars

NextRepro ==
    \E r \in Runs :
        \/ Cell3Graph(r)
        \/ LoopIteration(r)
        \/ LoopExit(r)

SpecRepro == InitRepro /\ [][NextRepro]_vars

-----------------------------------------------------------------------------
(* Vocabulary of the properties *)

\* reading an entry of the table: an absent key reads as 0
Read(Q, k) == IF k \in DOMAIN Q THEN Q[k] ELSE 0

\* the edges session r has processed so far, and all its edges
AllEdges(r) == Val(Graph[r]).edges
Processed(r) == SubSeq(AllEdges(r), 1, pos[r])

\* session r has left the accumulation loop
PastLoop(r) == pc[r] \notin {"off", "graph", "loop"}

\* how often node i is the first / the second endpoint in es, how often es
\* holds the pair e
AsFirst(es, i) == Cardinality({j \in DOMAIN es : es[j][1] = i})
AsSecond(es, i) == Cardinality({j \in DOMAIN es : es[j][2] = i})
Times(es, e) == Cardinality({j \in DOMAIN es : es[j] = e})
InRange(es) == {es[j] : j \in DOMAIN es}

RECURSIVE SumOver(_, _)
SumOver(Q, K) ==
    IF K = {} THEN 0
    ELSE LET k == CHOOSE x \in K : TRUE IN Q[k] + SumOver(Q, K \ {k})
Diagonal(Q) == {k \in DOMAIN Q : k[1] = k[2]}
OffDiagonal(Q) == {k \in DOMAIN Q : k[1] # k[2]}

\* the table the loop leaves for an edge list: the body applied edge by edge
RECURSIVE Fold(_, _, _)
Fold(Q, es, i) ==
    IF i > Len(es) THEN Q ELSE Fold(LoopBody(Q, es[i][1], es[i][2]), es, i + 1)

Last(l) == l[Len(l)]
IsPrefix(l, full) == Len(l) <= Len(full) /\ \A i \in DOMAIN l : l[i] = full[i]

-----------------------------------------------------------------------------
\* C1: once the loop has processed every edge, each diagonal entry (i,i) is
\* -1 * (edges with i first) - 3 * (edges with i second), each entry of a
\* processed edge (u,v) is 2 * (times it was processed), and the table has no
\* other entry.
C1_Accumulation ==
    \A r \in Runs : PastLoop(r) =>
        LET Q == Val(QUBO[r])
            es == AllEdges(r)
        IN  /\ pos[r] = Len(es)
            /\ \A i \in Val(Graph[r]).nodes :
                  Read(Q, <<i, i>>) = -1 * AsFirst(es, i) - 3 * AsSecond(es, i)
            /\ \A j \in DOMAIN es : Q[es[j]] = 2 * Times(es, es[j])
            /\ \A k \in DOMAIN Q : k[1] = k[2] \/ k \in InRange(es)

\* a finished loop over two edges with a node that is first endpoint of one
\* and second endpoint of the other
C1_Witness ==
    /\ PastLoop(1)
    /\ Len(AllEdges(1)) = 2
    /\ \E i \in Val(Graph[1]).nodes :
          AsFirst(AllEdges(1), i) = 1 /\ AsSecond(AllEdges(1), i) = 1

-----------------------------------------------------------------------------
\* C2 (as stated): the table is keyed by unordered pairs, i.e. for distinct
\* nodes u, v the entries (u,v) and (v,u) are one entry: both read the same.
C2_UnorderedKeys ==
    \A r \in Runs : IsBound(QUBO[r]) =>
        \A u, v \in Val(Graph[r]).nodes :
            Read(Val(QUBO[r]), <<u, v>>) = Read(Val(QUBO[r]), <<v, u>>)

\* C2 (amended): the keys are ordered pairs, as the edge iteration presents
\* them: a processed edge (u,v) has its weight under (u,v) and the key (v,u)
\* is absent; the table never holds both (u,v) and (v,u) for u # v.
C2_OrderedKeys ==
    \A r \in Runs : IsBound(QUBO[r]) =>
        LET Q == Val(QUBO[r])
        IN  /\ \A j \in 1 .. pos[r] :
                  LET e == AllEdges(r)[j]
                  IN  e \in DOMAIN Q /\ <<e[2], e[1]>> \notin DOMAIN Q
            /\ \A k \in DOMAIN Q :
                  k[1] # k[2] => <<k[2], k[1]>> \notin DOMAIN Q

\* an edge has been processed and its weight sits under its ordered key
C2_Witness ==
    /\ pc[1] = "loop"
    /\ pos[1] >= 1
    /\ Read(Val(QUBO[1]), AllEdges(1)[1]) = 2

-----------------------------------------------------------------------------
\* C3: sample_qubo is invoked with solver_limit, num_repeats and num_reads as
\* configured (40, 2, 100) and with the table the loop left; once bound, the
\* three parameters hold the configured values in every state.
C3_VerbatimParameters ==
    \A r \in Runs :
        /\ IsBound(solver_limit[r]) => Val(solver_limit[r]) = SolverLimitLiteral
        /\ IsBound(num_repeats[r]) => Val(num_repeats[r]) = NumRepeatsLiteral
        /\ IsBound(num_reads[r]) => Val(num_reads[r]) = NumReadsLiteral
        /\ IsBound(call[r]) =>
              LET c == Val(call[r])
              IN  /\ c.solver_limit = SolverLimitLiteral
                  /\ c.solver_limit = Val(solver_limit[r])
                  /\ c.num_repeats = NumRepeatsLiteral
                  /\ c.num_repeats = Val(num_repeats[r])
                  /\ c.num_reads = NumReadsLiteral
                  /\ c.num_reads = Val(num_reads[r])
                  /\ c.Q = Val(QUBO[r])
                  /\ c.Q = Fold(EmptyTable, AllEdges(r), 1)
                  /\ c.solver = Val(solver[r])

\* the solver has been invoked with a non-empty table
C3_Witness ==
    /\ IsBound(call[1])
    /\ DOMAIN Val(call[1]).Q # {}
    /\ pc[1] = "print"

-----------------------------------------------------------------------------
-----------------------------------------------------------------------------
\* C5: the steps begin in the order graph, accumulate, device, embedding,
\* solver, print, each at most once; the solver is invoked only after the
\* loop has processed all edges and the embedding is computed; printing
\* happens only after the solver returned.
C5_LinearOrder ==
    \A r \in Runs :
        /\ IsPrefix(log[r], Steps)
        /\ IsBound(call[r]) =>
              /\ pos[r] = Len(AllEdges(r))
              /\ IsBound(embedding[r])
              /\ IsBound(system[r])
        /\ stdout[r] # <<>> => IsBound(response[r]) /\ Len(stdout[r]) = 1

\* a run that went through all six steps
C5_Witness == pc[1] = "done" /\ log[1] = Steps /\ Len(stdout[1]) = 1

-----------------------------------------------------------------------------
\* an embedding search has failed in session r: it raised, or found nothing
EmbeddingSearchFailed(r) ==
    \/ error[r] = Bound("embedding")
    \/ IsBound(embedding[r]) /\ DOMAIN Val(embedding[r]) = {}

-----------------------------------------------------------------------------
-----------------------------------------------------------------------------
\* C8: after k edges the diagonal entries sum to -4k and the off-diagonal
\* entries to 2k; a diagonal entry present lies in [-3d, -d], d the number
\* of processed edges at its node; an off-diagonal entry present is a
\* positive multiple of 2.
C8_LoopInvariant ==
    \A r \in Runs : IsBound(QUBO[r]) =>
        LET Q == Val(QUBO[r])
            es == Processed(r)
            k == pos[r]
        IN  /\ SumOver(Q, Diagonal(Q)) = -4 * k
            /\ SumOver(Q, OffDiagonal(Q)) = 2 * k
            /\ \A key \in Diagonal(Q) :
                  LET d == AsFirst(es, key[1]) + AsSecond(es, key[1])
                  IN  -3 * d <= Q[key] /\ Q[key] <= -d
            /\ \A key \in OffDiagonal(Q) : Q[key] > 0 /\ Q[key] % 2 = 0

\* mid-loop, after two edges that share a node
C8_Witness ==
    /\ pc[1] = "loop"
    /\ pos[1] = 2
    /\ \E i \in Val(Graph[1]).nodes :
          AsFirst(Processed(1), i) + AsSecond(Processed(1), i) = 2

-----------------------------------------------------------------------------
\* C9: at every point of the loop (i,i) is a key iff i is an endpoint of a
\* processed edge, and (u,v), u # v, is a key iff the edge (u,v) has been
\* processed; so the variables of the submitted problem are the nodes with
\* an incident edge.
C9_KeySet ==
    \A r \in Runs : IsBound(QUBO[r]) =>
        LET Q == Val(QUBO[r])
            es == Processed(r)
            N == Val(Graph[r]).nodes
        IN  /\ \A i \in N :
                  <<i, i>> \in DOMAIN Q <=> AsFirst(es, i) + AsSecond(es, i) > 0
            /\ \A u, v \in N :
                  u # v => (<<u, v>> \in DOMAIN Q <=> <<u, v>> \in InRange(es))
            /\ DOMAIN Q \subseteq N \X N
            /\ IsBound(call[r]) =>
                  Variables(Val(call[r]).Q) = Endpoints(AllEdges(r))

\* the solver was invoked on a graph with an isolated node: fewer variables
\* than nodes
C9_Witness ==
    /\ IsBound(call[1])
    /\ Variables(Val(call[1]).Q) # {}
    /\ Cardinality(Variables(Val(call[1]).Q)) < nodes[1]

-----------------------------------------------------------------------------
====
